---- MODULE Spec2Model ----
(***************************************************************************)
(* Model of iphone_photo_cleaner.py: the scan / select / delete pipeline   *)
(* of iPhonePhotoCleaner (_connect_iphone, _scan_photos with its worker    *)
(* scan_thread, _delete_selected with its worker delete_thread), the      *)
(* thumbnail grid's selection state, the buttons, the progress dialog's    *)
(* grab and the queue of callbacks the workers post with self.after(0,..). *)
(*                                                                         *)
(* Strings are sequences of one-character strings, so that lower(),        *)
(* endswith(), the path f-strings and os.path.basename are computed the    *)
(* way the code computes them.  st_mtime is a number of ticks, with        *)
(* TicksPerDay ticks to a calendar day; a cutoff is a day number.          *)
(* Not modelled: widget layout and colours, label texts, the status bar,   *)
(* the clock, file sizes (display only) and thumbnail image bytes.         *)
(***************************************************************************)
EXTENDS Integers, Sequences, FiniteSets, TLC

\* ------------------------------------------------------------------ bounds

\* Ticks of st_mtime per calendar day (the scale of the model's clock).
TicksPerDay == 2

\* Scans started in one behaviour (a delete run needs the Delete button, which
\* a scan has to enable).
MaxScans == 2

\* Media files in the folder of the third device layout: enough for the stat
\* loop to pass its second progress step and then one more file.
BulkFiles == 12

\* ------------------------------------------------------- program constants

\* max_thumbnails = 100
max_thumbnails == 100

\* if i % 10 == 0: progress.update_progress(...)
ProgressEvery == 10

\* ------------------------------------------------------------------ strings

UpperSeq == <<"A","B","C","D","E","F","G","H","I","J","K","L","M",
              "N","O","P","Q","R","S","T","U","V","W","X","Y","Z">>

LowerSeq == <<"a","b","c","d","e","f","g","h","i","j","k","l","m",
              "n","o","p","q","r","s","t","u","v","w","x","y","z">>

\* str.lower() on one character.
LowerChar(c) ==
    IF \E k \in 1..Len(UpperSeq) : UpperSeq[k] = c
    THEN LowerSeq[CHOOSE k \in 1..Len(UpperSeq) : UpperSeq[k] = c]
    ELSE c

\* str.lower()
Lower(s) == [k \in 1..Len(s) |-> LowerChar(s[k])]

\* str.endswith(suffix)
EndsWith(s, suf) ==
    /\ Len(suf) <= Len(s)
    /\ SubSeq(s, Len(s) - Len(suf) + 1, Len(s)) = suf

\* The tuple of suffixes of line 931.
MediaSuffixes ==
    { <<".","j","p","g">>, <<".","j","p","e","g">>, <<".","p","n","g">>,
      <<".","h","e","i","c">>, <<".","h","e","i","f">>,
      <<".","m","o","v">>, <<".","m","p","4">>, <<".","m","4","v">> }

\* The tuple of suffixes of line 987.
VideoSuffixes == { <<".","m","o","v">>, <<".","m","p","4">>, <<".","m","4","v">> }

IsMediaNoLower(f) == \E suf \in MediaSuffixes : EndsWith(f, suf)

\* f.lower().endswith(('.jpg', '.jpeg', '.png', '.heic', '.heif', '.mov', '.mp4', '.m4v'))
IsMedia(f) == \E suf \in MediaSuffixes : EndsWith(Lower(f), suf)

\* photo["filename"].lower().endswith(('.mov', '.mp4', '.m4v'))
IsVideo(f) == \E suf \in VideoSuffixes : EndsWith(Lower(f), suf)

DCIM == <<"/","D","C","I","M">>

\* f"/DCIM/{folder}"
FolderPath(folder) == DCIM \o <<"/">> \o folder

\* f"{folder_path}/{f}"
PhotoPath(folder_path, f) == folder_path \o <<"/">> \o f

\* os.path.basename(photo_path): what follows the last "/".
Basename(p) ==
    LET slashes == { k \in 1..Len(p) : p[k] = "/" }
        last == IF slashes = {} THEN 0
                ELSE CHOOSE k \in slashes : \A j \in slashes : j <= k
    IN SubSeq(p, last + 1, Len(p))

\* datetime.fromtimestamp(stat['st_mtime']).date()
DateOf(mtime) == mtime \div TicksPerDay

IsOldInclusive(mtime, cutoff_date) == DateOf(mtime) <= cutoff_date

\* mtime.date() < cutoff_date
IsOld(mtime, cutoff_date) == DateOf(mtime) < cutoff_date

\* ------------------------------------------------------------------- device

Dot == <<".">>
DotDot == <<".",".">>
F100 == <<"1","0","0">>
F101 == <<"1","0","1">>

IMG1_JPG == <<"1",".","J","P","G">>
IMG2_MOV == <<"2",".","M","O","V">>
IMG3_HEIC == <<"3",".","H","e","i","c">>
IMG4_MP4 == <<"4",".","m","p","4">>
NOTE_TXT == <<"n",".","t","x","t">>
XJPG == <<"x","j","p","g">>

File(n, t) == [name |-> n, mtime |-> t]

\* BulkFiles images a.jpg, b.jpg, ...: the first and the one after the first
\* ProgressEvery are old, the others are modified on day 3.
BulkFolder ==
    [ k \in 1..BulkFiles |->
        File(<<LowerSeq[k], ".", "j", "p", "g">>,
             IF k \in {1, ProgressEvery + 1} THEN 0 ELSE 3 * TicksPerDay + 1) ]

\* The files of BulkFolder whose stat always returns in the behaviours explored:
\* all but the first, the one after the first ProgressEvery, and the last.
SteadyFiles ==
    { BulkFolder[k].name : k \in (1..BulkFiles) \ {1, ProgressEvery + 1, BulkFiles} }

\* The device contents a behaviour may start from: the root listing of /DCIM
\* and, for each folder, the files in listing order with their st_mtime.
Layouts ==
    { [ root  |-> <<Dot, DotDot, F100, F101>>,
        files |-> (F100 :> << File(IMG1_JPG, TicksPerDay), File(IMG2_MOV, 3 * TicksPerDay + 1) >>)
               @@ (F101 :> << File(NOTE_TXT, 0), File(IMG3_HEIC, 2 * TicksPerDay + 1) >>) ],
      [ root  |-> <<F101, F100>>,
        files |-> (F101 :> << File(IMG1_JPG, 2 * TicksPerDay), File(XJPG, 0) >>)
               @@ (F100 :> << File(IMG1_JPG, 3 * TicksPerDay + 1), File(IMG4_MP4, 1) >>) ],
      [ root  |-> <<Dot, F100>>,
        files |-> (F100 :> BulkFolder) ] }

\* The dates the date picker can be set to; NoDate is get_date() returning None.
Cutoffs == {2, 3}
NoDate == -1

\* The causes a device call can fail with.
TransportError == "TransportError"
NotFoundError == "NotFoundError"

VARIABLES
    dev_root,       \* the device: what listdir("/DCIM") returns
    dev_files,      \* the device: folder -> files (name, st_mtime) in listing order
    afc,            \* self.afc is not None
    connect_btn, scan_btn, delete_btn,   \* button states
    dry_run_var,    \* self.dry_run_var
    photos_data,    \* self.photos_data
    thumbnails,     \* self.image_grid.thumbnails (path, filename, selected)
    afterQ,         \* callbacks posted with self.after(0, ...) and not yet run
    dialog,         \* a RetroProgressDialog exists (it holds the grab)
    worker,         \* "none", "scan" or "delete": the running worker thread
    pc,             \* the worker's position
    scan,           \* scan_thread's locals (kept until the next operation starts)
    del,            \* delete_thread's locals (kept until the next operation starts)
    scans,          \* scans started so far
    scan_outcome,   \* how the last scan_thread ended: "none", "running", "ok", "fatal"
    posted,         \* message boxes posted by the last operation
    listLog,        \* listdir calls of the last operation, a scan: [path, ok]
    statLog,        \* stat calls of the last operation, a scan: [path, ok]
    rmLog,          \* rm calls of the last operation, a delete run: [path, filename, res]
    progLog,        \* update_progress calls of the last operation
    selAtStart,     \* paths selected in the grid when the last operation, a delete run, started
    lastDryRun      \* what the last dry run that ended worked on and reported

vars == << dev_root, dev_files, afc, connect_btn, scan_btn, delete_btn, dry_run_var,
           photos_data, thumbnails, afterQ, dialog, worker, pc, scan, del, scans,
           scan_outcome, posted, listLog, statLog, rmLog, progLog, selAtStart,
           lastDryRun >>

devVars == << dev_root, dev_files >>
logVars == << listLog, statLog, rmLog, progLog, selAtStart >>
btnVars == << connect_btn, scan_btn, delete_btn >>

ScanLocals0 ==
    [ cutoff_date |-> NoDate, dcim_folders |-> <<>>, all_photos |-> <<>>,
      scan_errors |-> <<>>, old_photos |-> <<>>, date_check_errors |-> 0, i |-> 0 ]

DelLocals0 ==
    [ dry_run |-> TRUE, total_to_delete |-> 0, deleted |-> 0, errors |-> 0,
      error_files |-> <<>>, i |-> 0 ]

Init ==
    /\ \E l \in Layouts : dev_root = l.root /\ dev_files = l.files
    /\ afc = FALSE
    /\ connect_btn = "normal"
    /\ scan_btn = "disabled"
    /\ delete_btn = "disabled"
    /\ dry_run_var = TRUE
    /\ photos_data = <<>>
    /\ thumbnails = <<>>
    /\ afterQ = <<>>
    /\ dialog = FALSE
    /\ worker = "none"
    /\ pc = "idle"
    /\ scan = ScanLocals0
    /\ del = DelLocals0
    /\ scans = 0
    /\ scan_outcome = "none"
    /\ posted = {}
    /\ listLog = <<>>
    /\ statLog = <<>>
    /\ rmLog = <<>>
    /\ progLog = <<>>
    /\ selAtStart = {}
    /\ lastDryRun = [items |-> <<>>, deleted |-> 0, errors |-> 0]

\* ---------------------------------------------------------------- helpers

Min(a, b) == IF a < b THEN a ELSE b

update_progress_swapped(log, phase, current, total, status) ==
    Append(log, [phase |-> phase, current |-> total, total |-> current, status |-> status])

\* RetroProgressDialog.update_progress(current, total, status), as the record the
\* dialog is given; phase tells which loop called it.
update_progress(log, phase, current, total, status) ==
    Append(log, [phase |-> phase, current |-> current, total |-> total, status |-> status])

RetroProgressDialogNoGrab == FALSE

\* RetroProgressDialog(parent, title): the new dialog does self.grab_set(), so
\* that no click reaches the main window while it exists.
RetroProgressDialog == TRUE

\* self.after(0, callback)
after(q, cb) == Append(q, cb)

\* RetroImageGrid.get_selected
get_selected(ts) == SelectSeq(ts, LAMBDA t : t.selected)

\* dcim_folders = [f for f in dcim_folders if f not in [".", ".."]]
FilterDots(entries) == SelectSeq(entries, LAMBDA f : f \notin {Dot, DotDot})

\* for f in files: if <media suffix>: all_photos.append(f"{folder_path}/{f}")
RECURSIVE AppendMedia(_, _, _)
AppendMedia(all_photos, folder_path, files) ==
    IF files = <<>> THEN all_photos
    ELSE AppendMedia(IF IsMedia(Head(files))
                     THEN Append(all_photos, PhotoPath(folder_path, Head(files)))
                     ELSE all_photos,
                     folder_path, Tail(files))

\* The names afc.listdir(folder_path) returns for a folder of the device.
Listing(folder) ==
    IF folder \in DOMAIN dev_files
    THEN [k \in 1..Len(dev_files[folder]) |-> dev_files[folder][k].name]
    ELSE <<>>

\* The device's file at a path, as a set of zero or one records.
DeviceFile(path) ==
    { f \in UNION { { [folder |-> d, name |-> dev_files[d][k].name,
                       mtime |-> dev_files[d][k].mtime] : k \in 1..Len(dev_files[d]) }
                    : d \in DOMAIN dev_files }
        : PhotoPath(FolderPath(f.folder), f.name) = path }

\* The device after afc.rm(path) succeeded.
Removed(path) ==
    [ d \in DOMAIN dev_files |->
        SelectSeq(dev_files[d], LAMBDA f : PhotoPath(FolderPath(d), f.name) # path) ]

\* old_photos.append({"path": ..., "filename": ..., "date": mtime, ...})
MakeItem(photo_path, mtime) ==
    [ path |-> photo_path, filename |-> Basename(photo_path), date |-> mtime ]

\* RetroImageGrid.add_thumbnail: the new thumbnail's checkbox starts checked.
add_thumbnail(ts, filename, file_path) ==
    Append(ts, [path |-> file_path, filename |-> filename, selected |-> TRUE])

\* The widgets the posted callbacks act on.
Widgets == [thumbnails |-> thumbnails, delete_btn |-> delete_btn, scan_btn |-> scan_btn]

\* One callback posted with self.after(0, ...) runs on the main thread.
run_callback(cb, ui) ==
    [ thumbnails |-> IF cb.op = "add_thumbnail"
                     THEN add_thumbnail(ui.thumbnails, cb.filename, cb.path)
                     ELSE IF cb.op = "grid_clear" THEN <<>>
                     ELSE ui.thumbnails,
      delete_btn |-> IF cb.op = "delete_btn" THEN cb.state ELSE ui.delete_btn,
      scan_btn   |-> IF cb.op = "scan_btn" THEN cb.state ELSE ui.scan_btn ]

RECURSIVE messagebox(_, _)
\* messagebox.showerror / showwarning / askyesno called on the main thread:
\* the box is modal and runs the event loop until it is answered, so the
\* callbacks posted before it run, oldest first, while it is open.
messagebox(q, ui) ==
    IF q = <<>> THEN ui ELSE messagebox(Tail(q), run_callback(Head(q), ui))

\* The handler returns after a message box and changes nothing itself.
ReturnAfterBox ==
    LET ui == messagebox(afterQ, Widgets)
    IN /\ afterQ' = <<>>
       /\ thumbnails' = ui.thumbnails
       /\ delete_btn' = ui.delete_btn
       /\ scan_btn' = ui.scan_btn
       /\ UNCHANGED << devVars, lastDryRun, afc, connect_btn, dry_run_var, photos_data, dialog,
                       worker, pc, scan, del, scans, scan_outcome, posted, logVars >>

\* ------------------------------------------------------- _connect_iphone

\* The Connect button: create_using_usbmux(), AfcService(lockdown), then the
\* check that /DCIM can be listed.
Connect ==
    /\ connect_btn = "normal"
    /\ ~dialog
    /\ \E usbmux_ok \in BOOLEAN, dcim_ok \in BOOLEAN :
         IF ~usbmux_ok
         THEN \* create_using_usbmux raised: the except branch
              /\ connect_btn' = "normal"
              /\ UNCHANGED << afc, scan_btn >>
         ELSE IF ~dcim_ok
         THEN \* self.afc was assigned before the listing of /DCIM raised
              /\ afc' = TRUE
              /\ connect_btn' = "normal"
              /\ UNCHANGED scan_btn
         ELSE /\ afc' = TRUE
              /\ connect_btn' = "disabled"
              /\ scan_btn' = "normal"
    /\ UNCHANGED << devVars, lastDryRun, delete_btn, dry_run_var, photos_data, thumbnails, afterQ,
                    dialog, worker, pc, scan, del, scans, scan_outcome, posted, logVars >>

\* ---------------------------------------------------------- _scan_photos

discard_kept(photos) == photos

\* self.photos_data = [] : what the candidate list is after the assignment.
discard(photos) == <<>>

\* The Scan button.  Invalid date or no connection: a message box and return.
ScanClick ==
    /\ scan_btn = "normal"
    /\ ~dialog
    /\ scans < MaxScans
    /\ \E c \in Cutoffs \cup {NoDate} :
         IF c = NoDate \/ ~afc
         THEN ReturnAfterBox
         ELSE /\ scan_btn' = "disabled"
              /\ thumbnails' = <<>>
              /\ photos_data' = discard(photos_data)
              /\ dialog' = RetroProgressDialog
              /\ worker' = "scan"
              /\ pc' = "root"
              /\ scan' = [ScanLocals0 EXCEPT !.cutoff_date = c]
              /\ scans' = scans + 1
              /\ scan_outcome' = "running"
              /\ posted' = {}
              /\ listLog' = <<>>
              /\ statLog' = <<>>
              /\ progLog' = <<>>
              /\ del' = DelLocals0
              /\ rmLog' = <<>>
              /\ selAtStart' = {}
              /\ UNCHANGED << devVars, lastDryRun, afc, connect_btn, delete_btn, dry_run_var, afterQ >>

ScanFatalLeavesScanDisabled ==
    /\ dialog' = FALSE
    /\ afterQ' = after(afterQ, [op |-> "messagebox", title |-> "Scan Error"])
    /\ posted' = posted \cup {"Scan Error"}
    /\ scan_outcome' = "fatal"
    /\ worker' = "none"
    /\ pc' = "idle"

ScanFatalSilent ==
    /\ dialog' = FALSE
    /\ afterQ' = after(afterQ, [op |-> "scan_btn", state |-> "normal"])
    /\ posted' = posted
    /\ scan_outcome' = "fatal"
    /\ worker' = "none"
    /\ pc' = "idle"

\* except Exception as e: (the handler of scan_thread's outer try)
ScanFatal ==
    /\ dialog' = FALSE
    /\ afterQ' = after(after(afterQ, [op |-> "scan_btn", state |-> "normal"]),
                       [op |-> "messagebox", title |-> "Scan Error"])
    /\ posted' = posted \cup {"Scan Error"}
    /\ scan_outcome' = "fatal"
    /\ worker' = "none"
    /\ pc' = "idle"

\* dcim_folders = self.afc.listdir("/DCIM")
ScanRoot ==
    /\ worker = "scan" /\ pc = "root"
    /\ \E ok \in BOOLEAN :
         /\ listLog' = Append(listLog, [path |-> DCIM, ok |-> ok])
         /\ IF ok
            THEN /\ scan' = [scan EXCEPT !.dcim_folders = FilterDots(dev_root), !.i = 1]
                 /\ pc' = "folders"
                 /\ UNCHANGED << dialog, afterQ, posted, scan_outcome, worker >>
            ELSE /\ ScanFatal
                 /\ UNCHANGED scan
    /\ UNCHANGED << devVars, lastDryRun, afc, btnVars, dry_run_var, photos_data, thumbnails,
                    del, scans, statLog, rmLog, progLog, selAtStart >>

ScanFolderFailAborts(folder, err) ==
    [scan EXCEPT !.scan_errors = Append(@, [folder |-> folder, error |-> err]),
                 !.i = Len(scan.dcim_folders) + 1]

\* except Exception as folder_err: scan_errors.append(...); continue
ScanFolderFail(folder, err) ==
    [scan EXCEPT !.scan_errors = Append(@, [folder |-> folder, error |-> err]),
                 !.i = @ + 1]

\* files = self.afc.listdir(folder_path) and the loop over files
ScanFolderOk(folder, files) ==
    [scan EXCEPT !.all_photos = AppendMedia(@, FolderPath(folder), files),
                 !.i = @ + 1]

\* One pass of "for i, folder in enumerate(dcim_folders)".
ScanFolder ==
    /\ worker = "scan" /\ pc = "folders"
    /\ scan.i <= Len(scan.dcim_folders)
    /\ LET folder == scan.dcim_folders[scan.i]
       IN \E ok \in BOOLEAN :
            /\ listLog' = Append(listLog, [path |-> FolderPath(folder), ok |-> ok])
            /\ IF ok
               THEN /\ scan' = ScanFolderOk(folder, Listing(folder))
                    /\ progLog' = update_progress(progLog, "folders", scan.i,
                                                  Len(scan.dcim_folders), folder)
               ELSE /\ scan' = ScanFolderFail(folder, TransportError)
                    /\ UNCHANGED progLog
    /\ UNCHANGED << devVars, lastDryRun, afc, btnVars, dry_run_var, photos_data, thumbnails, afterQ,
                    dialog, worker, pc, del, scans, scan_outcome, posted, statLog, rmLog,
                    selAtStart >>

\* The folder loop is over: old_photos = [], date_check_errors = 0.
ScanFoldersDone ==
    /\ worker = "scan" /\ pc = "folders"
    /\ scan.i > Len(scan.dcim_folders)
    /\ pc' = "stat"
    /\ scan' = [scan EXCEPT !.i = 1, !.old_photos = <<>>, !.date_check_errors = 0]
    /\ UNCHANGED << devVars, lastDryRun, afc, btnVars, dry_run_var, photos_data, thumbnails, afterQ,
                    dialog, worker, del, scans, scan_outcome, posted, logVars >>

ProgressDueEveryTenth(i0) == (i0 + 1) % ProgressEvery = 0

\* if i % 10 == 0 (i counts from 0)
ProgressDue(i0) == i0 % ProgressEvery = 0

StatOkPrepends(photo_path, mtime) ==
    [scan EXCEPT !.old_photos = IF IsOld(mtime, scan.cutoff_date)
                                THEN <<MakeItem(photo_path, mtime)>> \o @
                                ELSE @,
                 !.i = @ + 1]

\* stat returned: the item is kept when mtime.date() < cutoff_date
StatOk(photo_path, mtime) ==
    [scan EXCEPT !.old_photos = IF IsOld(mtime, scan.cutoff_date)
                                THEN Append(@, MakeItem(photo_path, mtime))
                                ELSE @,
                 !.i = @ + 1]

StatFailAborts(photo_path) ==
    [scan EXCEPT !.date_check_errors = @ + 1, !.i = Len(scan.all_photos) + 1]

\* except Exception as stat_err: date_check_errors += 1; continue
StatFail(photo_path) ==
    [scan EXCEPT !.date_check_errors = @ + 1, !.i = @ + 1]

\* One pass of "for i, photo_path in enumerate(all_photos)".
ScanStat ==
    /\ worker = "scan" /\ pc = "stat"
    /\ scan.i <= Len(scan.all_photos)
    /\ LET photo_path == scan.all_photos[scan.i]
           found == DeviceFile(photo_path)
       IN \E ok \in IF found = {} THEN {FALSE}
                     ELSE IF Basename(photo_path) \in SteadyFiles THEN {TRUE}
                     ELSE BOOLEAN :
            /\ statLog' = Append(statLog, [path |-> photo_path, ok |-> ok])
            /\ IF ok
               THEN LET mtime == (CHOOSE f \in found : TRUE).mtime
                        after_stat == StatOk(photo_path, mtime)
                    IN /\ scan' = after_stat
                       /\ progLog' = IF ProgressDue(scan.i - 1)
                                     THEN update_progress(progLog, "stat", scan.i,
                                                          Len(scan.all_photos),
                                                          Len(after_stat.old_photos))
                                     ELSE progLog
               ELSE /\ scan' = StatFail(photo_path)
                    /\ UNCHANGED progLog
    /\ UNCHANGED << devVars, lastDryRun, afc, btnVars, dry_run_var, photos_data, thumbnails, afterQ,
                    dialog, worker, pc, del, scans, scan_outcome, posted, listLog, rmLog,
                    selAtStart >>

\* The stat loop is over: the thumbnail loop starts.
ScanStatDone ==
    /\ worker = "scan" /\ pc = "stat"
    /\ scan.i > Len(scan.all_photos)
    /\ pc' = "thumbs"
    /\ scan' = [scan EXCEPT !.i = 1]
    /\ UNCHANGED << devVars, lastDryRun, afc, btnVars, dry_run_var, photos_data, thumbnails, afterQ,
                    dialog, worker, del, scans, scan_outcome, posted, logVars >>

\* One pass of "for i, photo in enumerate(old_photos[:max_thumbnails])": a video
\* gets a placeholder, an image is read with get_file_contents; read or not, the
\* worker posts add_thumbnail for it.
ScanThumb ==
    /\ worker = "scan" /\ pc = "thumbs"
    /\ scan.i <= Min(Len(scan.old_photos), max_thumbnails)
    /\ LET photo == scan.old_photos[scan.i]
       IN /\ \E read_ok \in (IF IsVideo(photo.filename) THEN {TRUE} ELSE BOOLEAN) :
               afterQ' = after(afterQ, [op |-> "add_thumbnail", path |-> photo.path,
                                        filename |-> photo.filename])
          /\ progLog' = update_progress(progLog, "thumbs", scan.i,
                                        Min(Len(scan.old_photos), max_thumbnails), "")
    /\ scan' = [scan EXCEPT !.i = @ + 1]
    /\ UNCHANGED << devVars, lastDryRun, afc, btnVars, dry_run_var, photos_data, thumbnails,
                    dialog, worker, pc, del, scans, scan_outcome, posted, listLog, statLog,
                    rmLog, selAtStart >>

\* self.photos_data = old_photos, the posted button updates, progress.destroy()
\* and the "Scan Complete" message box.
ScanFinish ==
    /\ worker = "scan" /\ pc = "thumbs"
    /\ scan.i > Min(Len(scan.old_photos), max_thumbnails)
    /\ photos_data' = scan.old_photos
    /\ LET q1 == after(afterQ, [op |-> "delete_btn",
                                state |-> IF scan.old_photos # <<>> THEN "normal"
                                          ELSE "disabled"])
           q2 == after(q1, [op |-> "scan_btn", state |-> "normal"])
           box == Len(scan.old_photos) > max_thumbnails \/ Len(scan.old_photos) = 0
       IN /\ afterQ' = IF box THEN after(q2, [op |-> "messagebox", title |-> "Scan Complete"])
                       ELSE q2
          /\ posted' = IF box THEN posted \cup {"Scan Complete"} ELSE posted
    /\ dialog' = FALSE
    /\ scan_outcome' = "ok"
    /\ worker' = "none"
    /\ pc' = "idle"
    /\ UNCHANGED << devVars, lastDryRun, afc, btnVars, dry_run_var, thumbnails, scan, del, scans, logVars >>

\* ------------------------------------------------------- _delete_selected

DeleteBtnLeftEnabled == "normal"

\* self.delete_btn.config(state="disabled") when a run starts.
DeleteBtnAtStart == "disabled"

\* The Delete button: the guards, the confirmations (during which the main
\* loop runs the callbacks already posted), then the worker starts.
DeleteClick ==
    /\ delete_btn = "normal"
    /\ ~dialog
    /\ \E confirm \in BOOLEAN, final \in BOOLEAN :
         LET selected == get_selected(thumbnails)
             dry_run == dry_run_var
             ui == messagebox(afterQ, Widgets)
         IN IF \/ (selected = <<>> /\ photos_data = <<>>)
               \/ ~afc
               \/ ~confirm
               \/ (~dry_run /\ ~final)
            THEN ReturnAfterBox
            ELSE /\ dialog' = RetroProgressDialog
                 /\ afterQ' = <<>>
                 /\ thumbnails' = ui.thumbnails
                 /\ delete_btn' = DeleteBtnAtStart
                 /\ scan_btn' = "disabled"
                 /\ worker' = "delete"
                 /\ pc' = "loop"
                 /\ del' = [DelLocals0 EXCEPT !.dry_run = dry_run,
                                              !.total_to_delete = Len(photos_data),
                                              !.i = 1]
                 /\ posted' = {}
                 /\ rmLog' = <<>>
                 /\ progLog' = <<>>
                 /\ selAtStart' = { selected[k].path : k \in 1..Len(selected) }
                 /\ scan' = [ScanLocals0 EXCEPT !.cutoff_date = scan.cutoff_date]
                 /\ listLog' = <<>>
                 /\ statLog' = <<>>
                 /\ UNCHANGED << devVars, lastDryRun, afc, connect_btn, dry_run_var, photos_data,
                                 scan_outcome, scans >>

RemoveCalledAlways(dry_run) == TRUE

\* if not dry_run: self.afc.rm(photo["path"])
RemoveCalled(dry_run) == ~dry_run

\* deleted += 1
RemoveOk(d) == [d EXCEPT !.deleted = @ + 1, !.i = @ + 1]

\* The try body of the loop when rm is not called.
Simulated(d) == RemoveOk(d)

RemoveFailAborts(d, photo) ==
    [d EXCEPT !.errors = @ + 1, !.error_files = Append(@, photo.filename),
              !.i = Len(photos_data) + 1]

RemoveFailUnlisted(d, photo) ==
    [d EXCEPT !.errors = @ + 1, !.i = @ + 1]

RemoveFailCounted(d, photo) ==
    [d EXCEPT !.deleted = @ + 1, !.errors = @ + 1,
              !.error_files = Append(@, photo.filename), !.i = @ + 1]

\* except Exception as e: errors += 1; error_files.append(photo["filename"])
RemoveFail(d, photo) ==
    [d EXCEPT !.errors = @ + 1, !.error_files = Append(@, photo.filename), !.i = @ + 1]

\* One pass of "for i, photo in enumerate(self.photos_data)".
DeleteItem ==
    /\ worker = "delete" /\ pc = "loop"
    /\ del.i <= Len(photos_data)
    /\ LET photo == photos_data[del.i]
       IN /\ IF RemoveCalled(del.dry_run)
             THEN \E res \in (IF DeviceFile(photo.path) = {} THEN {NotFoundError}
                              ELSE {"ok", TransportError}) :
                    /\ rmLog' = Append(rmLog, [path |-> photo.path,
                                               filename |-> photo.filename, res |-> res])
                    /\ IF res = "ok"
                       THEN /\ dev_files' = Removed(photo.path)
                            /\ del' = RemoveOk(del)
                       ELSE /\ del' = RemoveFail(del, photo)
                            /\ UNCHANGED dev_files
             ELSE /\ del' = Simulated(del)
                  /\ UNCHANGED << rmLog, dev_files >>
          /\ progLog' = update_progress(progLog, "delete", del.i, Len(photos_data),
                                        photo.filename)
    /\ UNCHANGED << dev_root, lastDryRun, afc, btnVars, dry_run_var, photos_data, thumbnails, afterQ,
                    dialog, worker, pc, scan, scans, scan_outcome, posted, listLog, statLog,
                    selAtStart >>

ClearAfterRunWithoutErrors(d) == ~d.dry_run /\ d.deleted > 0 /\ d.errors = 0

\* if not dry_run and deleted > 0:
ClearAfterRun(d) == ~d.dry_run /\ d.deleted > 0

\* After the loop: progress.destroy(), the result message box, and after a real
\* run that deleted something the grid is cleared and self.photos_data = [].
DeleteFinish ==
    /\ worker = "delete" /\ pc = "loop"
    /\ del.i > Len(photos_data)
    /\ dialog' = FALSE
    /\ posted' = posted \cup {"Complete!"}
    /\ LET q1 == after(afterQ, [op |-> "messagebox", title |-> "Complete!"])
           q2 == IF ClearAfterRun(del)
                 THEN after(after(q1, [op |-> "grid_clear"]),
                            [op |-> "delete_btn", state |-> "disabled"])
                 ELSE q1
       IN afterQ' = after(q2, [op |-> "scan_btn", state |-> "normal"])
    /\ photos_data' = IF ClearAfterRun(del) THEN <<>> ELSE photos_data
    /\ lastDryRun' = IF del.dry_run
                     THEN [items |-> photos_data, deleted |-> del.deleted,
                           errors |-> del.errors]
                     ELSE lastDryRun
    /\ worker' = "none"
    /\ pc' = "idle"
    /\ UNCHANGED << devVars, afc, btnVars, dry_run_var, thumbnails, scan, del, scans,
                    scan_outcome, logVars >>

\* ------------------------------------------------------------ main loop

\* The Tk main loop runs the oldest posted callback.
RunAfter ==
    /\ afterQ # <<>>
    /\ LET ui == run_callback(Head(afterQ), Widgets)
       IN /\ afterQ' = Tail(afterQ)
          /\ thumbnails' = ui.thumbnails
          /\ delete_btn' = ui.delete_btn
          /\ scan_btn' = ui.scan_btn
    /\ UNCHANGED << devVars, lastDryRun, afc, connect_btn, dry_run_var, photos_data, dialog, worker,
                    pc, scan, del, scans, scan_outcome, posted, logVars >>

\* The Dry Run checkbox.
ToggleDryRun ==
    /\ ~dialog
    /\ dry_run_var' = ~dry_run_var
    /\ UNCHANGED << devVars, lastDryRun, afc, btnVars, photos_data, thumbnails, afterQ, dialog,
                    worker, pc, scan, del, scans, scan_outcome, posted, logVars >>

\* A thumbnail's "Delete" checkbox.
ToggleThumbnail ==
    /\ ~dialog
    /\ \E k \in 1..Len(thumbnails) :
         thumbnails' = [thumbnails EXCEPT ![k].selected = ~@]
    /\ UNCHANGED << devVars, lastDryRun, afc, btnVars, dry_run_var, photos_data, afterQ, dialog,
                    worker, pc, scan, del, scans, scan_outcome, posted, logVars >>

\* _select_all
SelectAll ==
    /\ ~dialog
    /\ thumbnails' = [k \in 1..Len(thumbnails) |-> [thumbnails[k] EXCEPT !.selected = TRUE]]
    /\ UNCHANGED << devVars, lastDryRun, afc, btnVars, dry_run_var, photos_data, afterQ, dialog,
                    worker, pc, scan, del, scans, scan_outcome, posted, logVars >>

\* _deselect_all
DeselectAll ==
    /\ ~dialog
    /\ thumbnails' = [k \in 1..Len(thumbnails) |-> [thumbnails[k] EXCEPT !.selected = FALSE]]
    /\ UNCHANGED << devVars, lastDryRun, afc, btnVars, dry_run_var, photos_data, afterQ, dialog,
                    worker, pc, scan, del, scans, scan_outcome, posted, logVars >>

Next ==
    \/ Connect
    \/ ScanClick
    \/ ScanRoot
    \/ ScanFolder
    \/ ScanFoldersDone
    \/ ScanStat
    \/ ScanStatDone
    \/ ScanThumb
    \/ ScanFinish
    \/ DeleteClick
    \/ DeleteItem
    \/ DeleteFinish
    \/ RunAfter
    \/ ToggleDryRun
    \/ ToggleThumbnail
    \/ SelectAll
    \/ DeselectAll

Spec == Init /\ [][Next]_vars

\* A step of the scan or delete worker thread.
WorkerStep ==
    \/ ScanRoot
    \/ ScanFolder
    \/ ScanFoldersDone
    \/ ScanStat
    \/ ScanStatDone
    \/ ScanThumb
    \/ ScanFinish
    \/ DeleteItem
    \/ DeleteFinish

\* The program with its scheduling: a started worker thread keeps running
\* (every device call returns, with a value or an error), and the Tk main
\* loop keeps running the callbacks posted with self.after(0, ...).  Nothing
\* is assumed about the user's clicks.
FairSpec == Init /\ [][Next]_vars /\ WF_vars(WorkerStep) /\ WF_vars(RunAfter)

\* =================================================================== claims

\* Every file on the device, with its path.
DeviceFiles ==
    UNION { { [path |-> <<"/","D","C","I","M","/">> \o d \o <<"/">> \o dev_files[d][k].name,
               folder |-> d,
               name |-> dev_files[d][k].name,
               mtime |-> dev_files[d][k].mtime] : k \in 1..Len(dev_files[d]) }
            : d \in DOMAIN dev_files }

Paths(items) == [k \in 1..Len(items) |-> items[k].path]

Range(seq) == { seq[k] : k \in 1..Len(seq) }

\* scan_thread's locals are those of a scan that got past the root listing.
ScanLocalsLive == listLog # <<>> /\ listLog[1].ok

\* scan_thread has ended normally and nothing was started since.
ScanDone == scan_outcome = "ok" /\ worker = "none" /\ ScanLocalsLive

\* delete_thread has ended and nothing was started since.
DeleteDone == worker = "none" /\ del.i > 0

\* A delete run is under way or has ended, and nothing was started since.
DeleteLive == del.i > 0

\* C1: whatever the cutoff and the device content, the candidate list of a scan
\* (old_photos while it is built, self.photos_data afterwards) holds only files
\* whose modification date, time of day dropped, is strictly before the cutoff:
\* no file modified on the cutoff day or later is in it.
C1_CandidatesStrictlyBeforeCutoff ==
    LET files == DeviceFiles
    IN /\ \A k \in 1..Len(scan.old_photos) :
            /\ DateOf(scan.old_photos[k].date) < scan.cutoff_date
            /\ \A f \in files :
                 f.path = scan.old_photos[k].path => f.mtime = scan.old_photos[k].date
       /\ \A k \in 1..Len(photos_data) :
            DateOf(photos_data[k].date) < scan.cutoff_date
       /\ scan_outcome \in {"running", "ok"} =>
            LET kept == Range(Paths(scan.old_photos)) \cup Range(Paths(photos_data))
            IN \A f \in files :
                  f.mtime >= scan.cutoff_date * TicksPerDay => f.path \notin kept

\* A scan ended with candidates, and a media file modified on the cutoff day
\* itself, after midnight, was stat-ed and left out.
C1_Witness ==
    /\ ScanDone
    /\ photos_data # <<>>
    /\ \E f \in DeviceFiles :
         /\ DateOf(f.mtime) = scan.cutoff_date
         /\ f.mtime % TicksPerDay # 0
         /\ \E k \in 1..Len(statLog) : statLog[k].path = f.path /\ statLog[k].ok
         /\ f.path \notin Range(Paths(photos_data))

\* C2: a dry run never calls the device's rm, and its result counts every item
\* as deleted: deleted == number of items, errors == 0, no failed files.
C2_DryRunNeverRemoves ==
    (DeleteLive /\ del.dry_run) =>
       /\ rmLog = <<>>
       /\ del.errors = 0
       /\ del.error_files = <<>>
       /\ del.deleted = del.i - 1
       /\ DeleteDone => /\ del.deleted = del.total_to_delete
                        /\ del.deleted = Len(photos_data)

\* A dry run over two or more items has ended.
C2_Witness == DeleteDone /\ del.dry_run /\ del.total_to_delete >= 2

\* The rm calls that failed, in call order.
FailedRemoves == SelectSeq(rmLog, LAMBDA r : r.res # "ok")

\* C3 as stated: in a real run no failing rm aborts the batch, every later item
\* is still attempted in input order, and the failed list holds, in input order,
\* exactly the items whose rm failed, each with its filename and its cause.
C3_FailedListHasFilenameAndCause ==
    (DeleteLive /\ ~del.dry_run) =>
       /\ Len(rmLog) = del.i - 1
       /\ del.error_files =
            [k \in 1..Len(FailedRemoves) |-> <<FailedRemoves[k].filename, FailedRemoves[k].res>>]

\* C3, amended: in a real run no failing rm aborts the batch: rm is called once
\* for every item, in input order, and when the run ends every item was
\* attempted; the failed list holds, in input order, exactly the filenames of
\* the items whose rm failed (the cause is logged, not kept in the list).
C3_FailureIsolatedFilenamesRecorded ==
    (DeleteLive /\ ~del.dry_run) =>
       /\ Len(rmLog) = del.i - 1
       /\ worker = "delete" =>
            \A k \in 1..Len(rmLog) :
               /\ k <= Len(photos_data)
               /\ rmLog[k].path = photos_data[k].path
               /\ rmLog[k].filename = photos_data[k].filename
       /\ DeleteDone => Len(rmLog) = del.total_to_delete
       /\ del.error_files = [k \in 1..Len(FailedRemoves) |-> FailedRemoves[k].filename]
       /\ del.errors = Len(FailedRemoves)

\* A real run ended in which an rm failed and a later item was removed.
C3_Witness ==
    /\ DeleteDone /\ ~del.dry_run
    /\ \E j, k \in 1..Len(rmLog) : j < k /\ rmLog[j].res # "ok" /\ rmLog[k].res = "ok"
    /\ del.error_files # <<>>

\* C4: after the caller deselected some scan results, the delete run works only
\* on the items left selected: rm is never called on a deselected path and the
\* result counts no more items than were selected.
C4_OnlySelectedItemsDeleted ==
    DeleteLive =>
       /\ \A k \in 1..Len(rmLog) : rmLog[k].path \in selAtStart
       /\ del.deleted + del.errors <= Cardinality(selAtStart)

\* A real run has ended and every rm of it succeeded.
AllRemovesSucceeded ==
    /\ DeleteDone
    /\ ~del.dry_run
    /\ \A k \in 1..Len(rmLog) : rmLog[k].res = "ok"

\* C5: deleted counts exactly the items for which the run was a dry run or rm
\* returned without error; a real run whose every rm succeeded ends with
\* deleted == number of items and no failed file.
C5_SucceededCount ==
    DeleteLive =>
       /\ del.deleted = IF del.dry_run THEN del.i - 1
                        ELSE Cardinality({ k \in 1..Len(rmLog) : rmLog[k].res = "ok" })
       /\ del.deleted + del.errors = del.i - 1
       /\ AllRemovesSucceeded =>
             (del.deleted = del.total_to_delete /\ del.error_files = <<>> /\ del.errors = 0)

\* A real run over two or more items ended with every rm successful.
C5_Witness ==
    /\ AllRemovesSucceeded
    /\ del.total_to_delete >= 2
    /\ Len(rmLog) = del.total_to_delete

\* The extensions of the claim, without the dot.
MediaExtensions ==
    { <<"j","p","g">>, <<"j","p","e","g">>, <<"p","n","g">>, <<"h","e","i","c">>,
      <<"h","e","i","f">>, <<"m","o","v">>, <<"m","p","4">>, <<"m","4","v">> }

\* Each capital letter with its small letter.
SmallOf ==
    [ c \in { UpperSeq[u] : u \in 1..Len(UpperSeq) } |->
        LowerSeq[CHOOSE u \in 1..Len(UpperSeq) : UpperSeq[u] = c] ]

\* The name has an extension (what follows its last dot) that is, letter case
\* aside, one of MediaExtensions.
HasMediaExtension(name) ==
    LET dots == { d \in 1..Len(name) : name[d] = "." }
    IN /\ dots # {}
       /\ LET last == CHOOSE d \in dots : \A e \in dots : e <= d
              ext == [ j \in 1..(Len(name) - last) |->
                         IF name[last + j] \in DOMAIN SmallOf
                         THEN SmallOf[name[last + j]]
                         ELSE name[last + j] ]
          IN ext \in MediaExtensions

\* The folders of the device in the order of the root listing.
RootFolders == SelectSeq(dev_root, LAMBDA e : e # <<".">> /\ e # <<".", ".">>)

DevicePath(folder, name) == <<"/","D","C","I","M","/">> \o folder \o <<"/">> \o name

\* The media files of one folder, as paths, in the order of its listing.
FolderMedia(folder) ==
    LET media == SelectSeq(dev_files[folder], LAMBDA f : HasMediaExtension(f.name))
    IN [k \in 1..Len(media) |-> DevicePath(folder, media[k].name)]

\* Discovery order over the first n folders: the media files of each folder
\* whose listing succeeded, folder after folder.
RECURSIVE ExpectedPhotos(_)
ExpectedPhotos(n) ==
    IF n = 0 THEN <<>>
    ELSE ExpectedPhotos(n - 1)
         \o (IF listLog[n + 1].ok THEN FolderMedia(RootFolders[n]) ELSE <<>>)

\* Folders listed so far by the scan.
FoldersListed == Len(listLog) - 1

\* The folder loop of the scan is over.
FolderPhaseOver == pc \in {"stat", "thumbs"} \/ ScanDone

\* The stat loop of the scan is over.
StatPhaseOver == pc = "thumbs" \/ ScanDone

ListedOk(folder) ==
    \E k \in 2..Len(listLog) :
       listLog[k].ok /\ listLog[k].path = <<"/","D","C","I","M","/">> \o folder

C7_ExampleRun ==
    /\ ScanDone
    /\ dev_root = << <<".">>, <<".",".">>, <<"1","0","0">>, <<"1","0","1">> >>
    /\ Len(dev_files[<<"1","0","0">>]) = 2
    /\ dev_files[<<"1","0","0">>][1].name = <<"1",".","J","P","G">>
    /\ dev_files[<<"1","0","0">>][1].mtime < 2 * TicksPerDay
    /\ dev_files[<<"1","0","0">>][2].name = <<"2",".","M","O","V">>
    /\ dev_files[<<"1","0","0">>][2].mtime >= 2 * TicksPerDay
    /\ scan.cutoff_date = 2
    /\ listLog[2].ok
    /\ ~listLog[3].ok
    /\ \A k \in 1..Len(statLog) : statLog[k].ok

\* Exactly the old image of 100, one folder failure (101), no stat failure.
C7_ExampleResult ==
    /\ Paths(photos_data) = << <<"/","D","C","I","M","/","1","0","0","/","1",".","J","P","G">> >>
    /\ Len(scan.scan_errors) = 1
    /\ scan.scan_errors[1].folder = <<"1","0","1">>
    /\ scan.date_check_errors = 0

\* C7: when the listing of a folder fails, one entry for that folder is recorded,
\* the folder contributes no file, and every other folder is still listed, its
\* media files collected and, by the end, stat-ed.  In the layout with folders
\* 100 (one old image, one new video) and 101 (listing fails), cutoff between
\* the two: exactly the old image, one folder failure, no stat failure.
C7_FolderFailureIsolated ==
    ScanLocalsLive =>
       /\ scan.dcim_folders = RootFolders
       /\ FoldersListed <= Len(RootFolders)
       /\ \A k \in 1..FoldersListed :
            listLog[k + 1].path = <<"/","D","C","I","M","/">> \o RootFolders[k]
       /\ LET failed == SelectSeq([k \in 1..FoldersListed |->
                                      [folder |-> RootFolders[k], ok |-> listLog[k + 1].ok]],
                                  LAMBDA r : ~r.ok)
          IN /\ Len(scan.scan_errors) = Len(failed)
             /\ \A k \in 1..Len(failed) : scan.scan_errors[k].folder = failed[k].folder
       /\ scan.all_photos = ExpectedPhotos(FoldersListed)
       /\ FolderPhaseOver => FoldersListed = Len(RootFolders)
       /\ ScanDone => [k \in 1..Len(statLog) |-> statLog[k].path] = scan.all_photos
       /\ C7_ExampleRun => C7_ExampleResult

\* The scan of that layout ended: 100 was listed, the listing of 101 failed,
\* every stat succeeded.
C7_Witness == C7_ExampleRun /\ Len(statLog) = 2 /\ Len(listLog) = 3

\* C8: a failing stat adds exactly one to the stat-failure count, keeps that
\* file out of the candidate list and does not stop the loop: every media file
\* found is stat-ed once, in order, and at the end the count is the number of
\* files whose stat failed.
C8_StatFailureIsolated ==
    ScanLocalsLive =>
       /\ scan.date_check_errors = Cardinality({ k \in 1..Len(statLog) : ~statLog[k].ok })
       /\ \A k \in 1..Len(statLog) :
            ~statLog[k].ok => statLog[k].path \notin Range(Paths(scan.old_photos))
       /\ Len(statLog) <= Len(scan.all_photos)
       /\ \A k \in 1..Len(statLog) : statLog[k].path = scan.all_photos[k]
       /\ pc = "stat" => Len(statLog) = scan.i - 1
       /\ StatPhaseOver => Len(statLog) = Len(scan.all_photos)
       /\ ScanDone =>
            \A k \in 1..Len(statLog) :
               ~statLog[k].ok => statLog[k].path \notin Range(Paths(photos_data))

\* A scan ended with candidates although a stat had failed before a later stat
\* succeeded.
C8_Witness ==
    /\ ScanDone
    /\ photos_data # <<>>
    /\ scan.date_check_errors >= 1
    /\ \E j, k \in 1..Len(statLog) : j < k /\ ~statLog[j].ok /\ statLog[k].ok

\* The file at a path was stat-ed successfully and is older than the cutoff.
KeptByScan(p) ==
    /\ \E k \in 1..Len(statLog) : statLog[k].path = p /\ statLog[k].ok
    /\ \E d \in DOMAIN dev_files :
          \E k \in 1..Len(dev_files[d]) :
             /\ <<"/","D","C","I","M","/">> \o d \o <<"/">> \o dev_files[d][k].name = p
             /\ dev_files[d][k].mtime < scan.cutoff_date * TicksPerDay

\* C9: the candidate list is in discovery order (folders as the root listing
\* gave them, files as each folder's listing gave them), never re-sorted: it is
\* the sequence the listings, the stats and the cutoff determine.
C9_DiscoveryOrder ==
    ScanLocalsLive =>
       LET expected == ExpectedPhotos(FoldersListed)
       IN /\ scan.all_photos = expected
          /\ Paths(scan.old_photos) =
               SelectSeq(SubSeq(expected, 1, Len(statLog)), KeptByScan)
          /\ ScanDone =>
               /\ photos_data = scan.old_photos
               /\ FoldersListed = Len(RootFolders)
               /\ Paths(photos_data) = SelectSeq(expected, KeptByScan)

\* A scan ended with two candidates, the newer one first and the one in the
\* folder of the higher name first: folder 101 was listed before folder 100,
\* and between the two a file of folder 100 was stat-ed and left out.
C9_Witness ==
    /\ ScanDone
    /\ Len(photos_data) = 2
    /\ photos_data[1].date > photos_data[2].date
    /\ dev_root[1] = <<"1","0","1">>
    /\ photos_data[1].path = <<"/","D","C","I","M","/","1","0","1","/","1",".","J","P","G">>
    /\ Len(statLog) = 3

\* C10: a file whose extension is, letter case aside, none of jpg, jpeg, png,
\* heic, heif, mov, mp4, m4v is never stat-ed, never a candidate and in no
\* tally; a file with one of them, in any letter case, in a folder that was
\* listed, is counted and stat-ed.
C10_OnlyMediaExtensionsConsidered ==
    ScanLocalsLive =>
       LET files == DeviceFiles
           media == { f \in files : HasMediaExtension(f.name) }
           found == Range(scan.all_photos)
           stated == { statLog[k].path : k \in 1..Len(statLog) }
           kept == Range(Paths(scan.old_photos)) \cup Range(Paths(photos_data))
       IN /\ \A f \in files \ media :
                /\ f.path \notin found
                /\ f.path \notin stated
                /\ f.path \notin kept
          /\ \A f \in media :
                ListedOk(f.folder) =>
                   /\ f.path \in found
                   /\ StatPhaseOver => f.path \in stated
          /\ Len(scan.all_photos) = Cardinality({ f \in media : ListedOk(f.folder) })
          /\ scan.date_check_errors + Len(scan.old_photos) <= Len(statLog)
          /\ Len(statLog) <= Len(scan.all_photos)

\* A scan ended: a listed folder held a file without a media extension, and a
\* file with an upper-case media extension became a candidate.
C10_Witness ==
    /\ ScanDone
    /\ \E f \in DeviceFiles : ~HasMediaExtension(f.name) /\ ListedOk(f.folder)
    /\ \E f \in DeviceFiles :
         /\ HasMediaExtension(f.name)
         /\ Lower(f.name) # f.name
         /\ f.path \in Range(Paths(photos_data))

\* The loops of a scan in the order they run, and the loop of a delete run.
PhaseRank(phase) ==
    CASE phase = "folders" -> 1
      [] phase = "stat" -> 2
      [] phase = "thumbs" -> 3
      [] OTHER -> 4

\* C11 as stated: within one scan and within one delete run, the current of
\* every progress notification is above the current of every earlier one.
C11_ProgressStrictlyIncreasing ==
    \A j, k \in 1..Len(progLog) :
       j < k => progLog[j].current < progLog[k].current

\* C11, amended: within one delete run, and within each loop of one scan (the
\* folder loop, the stat loop, the thumbnail loop), the current of every
\* progress notification is above the current of every earlier one of that
\* loop; the loops notify one after the other, each counting from its own start.
C11_ProgressIncreasingPerPhase ==
    /\ \A j, k \in 1..Len(progLog) :
          j < k =>
             /\ PhaseRank(progLog[j].phase) <= PhaseRank(progLog[k].phase)
             /\ progLog[j].phase = progLog[k].phase =>
                   progLog[j].current < progLog[k].current
    /\ \A k \in 1..Len(progLog) :
          /\ progLog[k].current >= 1
          /\ (progLog[k].phase = "delete") = DeleteLive

\* A scan ended whose stat loop and whose thumbnail loop each notified twice,
\* the thumbnail loop starting again below what the stat loop had reached.
C11_Witness ==
    /\ ScanDone
    /\ \E j, k \in 1..Len(progLog) :
          j < k /\ progLog[j].phase = "stat" /\ progLog[k].phase = "stat"
    /\ \E j, k \in 1..Len(progLog) :
          /\ j < k /\ progLog[j].phase = "stat" /\ progLog[k].phase = "thumbs"
          /\ progLog[k].current < progLog[j].current
    /\ Len(SelectSeq(progLog, LAMBDA n : n.phase = "thumbs")) >= 2

\* C12: at most one worker uses the device at a time: a scan or a delete run is
\* started only when no worker is running, a running worker is never replaced
\* by another, every device call is made by the one running worker, and as
\* long as a worker runs its progress dialog holds the grab.
C12_OneWorkerAtATime ==
    [][ /\ (worker' # worker /\ worker' # "none") => worker = "none"
        /\ (worker # "none" /\ worker' # "none") => worker' = worker
        /\ (listLog' # listLog /\ listLog' # <<>>) => worker = "scan"
        /\ (statLog' # statLog /\ statLog' # <<>>) => worker = "scan"
        /\ (rmLog' # rmLog /\ rmLog' # <<>>) => worker = "delete"
        /\ worker # "none" => dialog ]_vars

\* A second scan is running, its thumbnails are arriving in the grid, and the
\* Delete button is still enabled from the scan before.
C12_Witness ==
    /\ worker = "scan"
    /\ scans >= 2
    /\ delete_btn = "normal"
    /\ get_selected(thumbnails) # <<>>
    /\ statLog # <<>>

\* C13: two dry runs over the same candidate list report the same deleted and
\* error counts, and no step of a dry run changes the device content or the
\* candidate list.
C13_DryRunRepeatable ==
    /\ []( ( /\ DeleteLive
             /\ del.dry_run
             /\ del.i > del.total_to_delete
             /\ lastDryRun.items # <<>>
             /\ lastDryRun.items = photos_data )
           => ( /\ del.deleted = lastDryRun.deleted
                /\ del.errors = lastDryRun.errors
                /\ Len(del.error_files) = lastDryRun.errors ) )
    /\ [][ ((worker = "delete" /\ del.dry_run) \/ (worker' = "delete" /\ del'.dry_run))
             => /\ dev_files' = dev_files
                /\ dev_root' = dev_root
                /\ photos_data' = photos_data ]_vars

\* A second dry run has gone through the two-item candidate list an earlier dry
\* run had gone through, a scan having listed the same two items in between.
C13_Witness ==
    /\ worker = "delete"
    /\ del.dry_run
    /\ del.i > del.total_to_delete
    /\ Len(photos_data) = 2
    /\ lastDryRun.items = photos_data

\* C14: a delete run over n items notifies progress exactly n times, once after
\* each item whether its rm returned, failed or was not called (dry run): the
\* k-th notification carries current = k, total = n and the k-th item's filename.
C14_DeleteProgressPerItem ==
    DeleteLive =>
       /\ Len(progLog) = del.i - 1
       /\ \A k \in 1..Len(progLog) :
             /\ progLog[k].phase = "delete"
             /\ progLog[k].current = k
             /\ progLog[k].total = del.total_to_delete
             /\ worker = "delete" => progLog[k].status = photos_data[k].filename
             /\ ~del.dry_run => progLog[k].status = rmLog[k].filename
       /\ DeleteDone => Len(progLog) = del.total_to_delete

\* A real run over two items of different filenames has ended, one rm having
\* failed and one returned.
C14_Witness ==
    /\ DeleteDone
    /\ ~del.dry_run
    /\ del.total_to_delete = 2
    /\ del.errors = 1
    /\ del.deleted = 1
    /\ Len(progLog) = 2
    /\ progLog[1].status # progLog[2].status

\* The progress notifications of the stat loop, in order.
StatNotes == SelectSeq(progLog, LAMBDA n : n.phase = "stat")

\* The files stat-ed so far (1 = the first) after which the claim has a
\* notification: every 10th and, once the loop is over, the final one.
ClaimedStatSteps ==
    SelectSeq([k \in 1..Len(statLog) |-> k],
              LAMBDA k : k % 10 = 0 \/ (StatPhaseOver /\ k = Len(statLog)))

\* The files stat-ed so far after which the code notifies: the first, the 11th,
\* the 21st, ..., when their stat returned.
ActualStatSteps ==
    SelectSeq([k \in 1..Len(statLog) |-> k],
              LAMBDA k : (k - 1) % 10 = 0 /\ statLog[k].ok)

\* Old files among the first k stat-ed: stat returned, modified before the cutoff.
OldAmongFirst(k) ==
    Cardinality({ m \in 1..k : KeptByScan(statLog[m].path) })

\* C15 as stated: the stat loop over n files notifies (k, n, old so far) after
\* every 10th file and after the final one, whether or not its stat returned,
\* so that the last notification of the loop has k = n.
C15_StatProgressEveryTenthAndFinal ==
    ScanLocalsLive =>
       /\ Len(StatNotes) = Len(ClaimedStatSteps)
       /\ \A j \in 1..Len(StatNotes) :
             j <= Len(ClaimedStatSteps) =>
                /\ StatNotes[j].current = ClaimedStatSteps[j]
                /\ StatNotes[j].total = Len(scan.all_photos)
       /\ (StatPhaseOver /\ statLog # <<>>) =>
             /\ StatNotes # <<>>
             /\ StatNotes[Len(StatNotes)].current = Len(statLog)

\* C15, amended: the stat loop over n files notifies (k, n, old so far) after
\* the k-th file exactly when k is 1, 11, 21, ... and the stat of that file
\* returned; a file whose stat failed is followed by no notification, and the
\* final file by none unless it is one of those, so the last notification of
\* the loop may have k below n and the loop may notify nothing at all.
C15_StatProgressFirstOfEachTen ==
    ScanLocalsLive =>
       /\ Len(StatNotes) = Len(ActualStatSteps)
       /\ \A j \in 1..Len(StatNotes) :
             j <= Len(ActualStatSteps) =>
                /\ StatNotes[j].current = ActualStatSteps[j]
                /\ StatNotes[j].total = Len(scan.all_photos)
                /\ StatNotes[j].status = OldAmongFirst(ActualStatSteps[j])

\* A scan ended that stat-ed twelve files or more: the stat of the first
\* failed, those of the 11th and of the final one returned, and the loop's
\* only notification is that of the 11th, with one old file found.
C15_Witness ==
    /\ ScanDone
    /\ Len(statLog) >= 12
    /\ ~statLog[1].ok
    /\ statLog[11].ok
    /\ statLog[Len(statLog)].ok
    /\ Len(StatNotes) = 1
    /\ StatNotes[1].current = 11
    /\ StatNotes[1].status = 1

\* The progress notifications of the folder loop, in order.
FolderNotes == SelectSeq(progLog, LAMBDA n : n.phase = "folders")

\* The folders listed so far (1 = the first) whose listing returned.
ListedSteps ==
    SelectSeq([k \in 1..FoldersListed |-> k], LAMBDA k : listLog[k + 1].ok)

\* C16 as stated: the folder loop over m folders notifies (k, m, folder name)
\* after each folder, a folder whose listing failed included: m notifications
\* in all, the last with k = m.
C16_FolderProgressAfterEveryFolder ==
    ScanLocalsLive =>
       /\ Len(FolderNotes) = FoldersListed
       /\ \A j \in 1..Len(FolderNotes) :
             /\ FolderNotes[j].current = j
             /\ FolderNotes[j].total = Len(RootFolders)
       /\ FolderPhaseOver => Len(FolderNotes) = Len(RootFolders)

\* C16, amended: the folder loop over m folders goes through all m and notifies
\* (k, m, folder name) after the k-th folder exactly when its listing returned;
\* a folder whose listing failed is followed by no notification, so there are
\* as many notifications as folders listed without error, and the last one has
\* k below m when the listing of the last folder failed.
C16_FolderProgressAfterListedFolders ==
    ScanLocalsLive =>
       /\ Len(FolderNotes) = Len(ListedSteps)
       /\ \A j \in 1..Len(FolderNotes) :
             j <= Len(ListedSteps) =>
                /\ FolderNotes[j].current = ListedSteps[j]
                /\ FolderNotes[j].total = Len(RootFolders)
                /\ FolderNotes[j].status = RootFolders[ListedSteps[j]]
       /\ FolderPhaseOver => FoldersListed = Len(RootFolders)

\* A scan of two folders ended: the listing of the first failed, that of the
\* second returned, and the folder loop's only notification is (2, 2).
C16_Witness ==
    /\ ScanDone
    /\ Len(RootFolders) = 2
    /\ ~listLog[2].ok
    /\ listLog[3].ok
    /\ Len(FolderNotes) = 1
    /\ FolderNotes[1].current = 2
    /\ FolderNotes[1].total = 2

\* C17: a scan discards the candidate list of the scan before it as it starts:
\* the list is empty from the start of the scan until the scan ends normally,
\* and after a scan that failed at the root listing it is still empty, the
\* earlier list not being put back.
C17_ScanDiscardsEarlierCandidates ==
    /\ []( /\ worker = "scan" => photos_data = <<>>
           /\ scan_outcome = "running" => photos_data = <<>>
           /\ scan_outcome = "fatal" => photos_data = <<>> )
    /\ [][ (worker # "scan" /\ worker' = "scan") => photos_data' = <<>> ]_vars

\* A scan failed at the root listing, after a dry run had gone through the
\* candidates of the scan before it, which the dry run had left in place.
C17_Witness ==
    /\ scan_outcome = "fatal"
    /\ worker = "none"
    /\ lastDryRun.items # <<>>
    /\ photos_data = <<>>
    /\ scans >= 2

\* The rm call a step makes, if it makes one.
RemoveStep == rmLog' # rmLog /\ rmLog' # <<>>

\* C18: over any sequence of operations, rm is called only by the worker of a
\* real delete run and only on a path of the current candidate list; that list
\* is only ever set by a scan that ended normally, to files with a media
\* extension whose stat returned a date strictly before that scan's cutoff, and
\* is otherwise only emptied; no step of a scan and no step outside a real
\* delete run calls rm or changes the device.
C18_RemoveOnlyLastScanCandidates ==
    /\ []( ScanDone =>
              \A k \in 1..Len(photos_data) :
                 /\ KeptByScan(photos_data[k].path)
                 /\ \E f \in DeviceFiles :
                       /\ f.path = photos_data[k].path
                       /\ HasMediaExtension(f.name)
                       /\ DateOf(f.mtime) < scan.cutoff_date )
    /\ [][ /\ RemoveStep =>
                /\ worker = "delete"
                /\ ~del.dry_run
                /\ Len(rmLog') = Len(rmLog) + 1
                /\ rmLog'[Len(rmLog')].path \in Range(Paths(photos_data))
                /\ \A f \in DeviceFiles :
                      f.path = rmLog'[Len(rmLog')].path =>
                         /\ HasMediaExtension(f.name)
                         /\ DateOf(f.mtime) < scan.cutoff_date
           /\ photos_data' # photos_data =>
                \/ photos_data' = <<>>
                \/ /\ worker = "scan" /\ worker' = "none"
                   /\ scan_outcome' = "ok"
                   /\ photos_data' = scan.old_photos
           /\ (dev_files' # dev_files \/ dev_root' # dev_root) =>
                (RemoveStep /\ rmLog'[Len(rmLog')].res = "ok")
           /\ worker = "scan" => (rmLog' = rmLog /\ dev_files' = dev_files)
         ]_vars

\* A real delete run has ended that called rm once, on the only candidate of
\* the last scan (cutoff day 2), while a media file that a scan with cutoff
\* day 3 lists as a candidate is still on the device.
C18_Witness ==
    /\ DeleteDone
    /\ ~del.dry_run
    /\ scans >= 2
    /\ scan.cutoff_date = 2
    /\ Len(rmLog) = 1
    /\ rmLog[1].res = "ok"
    /\ \E f \in DeviceFiles :
          HasMediaExtension(f.name) /\ DateOf(f.mtime) = 2

\* C19: when a delete run over n items ends, deleted + errors = n, each item
\* having been counted once, as deleted or as an error, and the list of failed
\* filenames is as long as the error count; while the run goes on the same
\* holds of the items gone through so far.
C19_DeleteTallyComplete ==
    DeleteLive =>
       /\ del.errors = Len(del.error_files)
       /\ del.deleted >= 0 /\ del.errors >= 0
       /\ del.deleted + del.errors = del.i - 1
       /\ del.i - 1 <= del.total_to_delete
       /\ ~del.dry_run =>
             /\ Len(rmLog) = del.i - 1
             /\ del.deleted = Len(SelectSeq(rmLog, LAMBDA r : r.res = "ok"))
             /\ del.errors = Len(SelectSeq(rmLog, LAMBDA r : r.res # "ok"))
       /\ DeleteDone =>
             /\ del.deleted + del.errors = del.total_to_delete
             /\ del.deleted + Len(del.error_files) = del.total_to_delete
             /\ ~del.dry_run => Len(rmLog) = del.total_to_delete

\* A real run over two items has ended: the first rm returned, the second
\* failed, and the second item's filename is the one failed filename.
C19_Witness ==
    /\ DeleteDone
    /\ ~del.dry_run
    /\ del.total_to_delete = 2
    /\ rmLog[1].res = "ok"
    /\ rmLog[2].res # "ok"
    /\ del.error_files = << rmLog[2].filename >>

\* An rm of the run returned without error.
SomeRemoveSucceeded == \E k \in 1..Len(rmLog) : rmLog[k].res = "ok"

\* C20: a real delete run in which an rm succeeded ends with the candidate list
\* empty, the items whose rm failed gone from it too; a dry run, and a real run
\* in which every rm failed, end with the candidate list as it was when the
\* run started; no step before the end of a run changes the list.
C20_ListClearedIffSomethingRemoved ==
    /\ []( DeleteDone =>
              IF ~del.dry_run /\ SomeRemoveSucceeded
              THEN photos_data = <<>>
              ELSE /\ Len(photos_data) = del.total_to_delete
                   /\ ~del.dry_run =>
                         Paths(photos_data) = [k \in 1..Len(rmLog) |-> rmLog[k].path] )
    /\ [][ worker = "delete" =>
              IF worker' = "delete"
              THEN photos_data' = photos_data
              ELSE photos_data' = IF ~del.dry_run /\ SomeRemoveSucceeded
                                  THEN <<>> ELSE photos_data ]_vars

\* A real run over two items has ended in which one rm failed and the other
\* returned: the candidate list is empty although the file whose rm failed is
\* still on the device.
C20_Witness ==
    /\ DeleteDone
    /\ ~del.dry_run
    /\ del.total_to_delete = 2
    /\ SomeRemoveSucceeded
    /\ \E k \in 1..Len(rmLog) :
          /\ rmLog[k].res # "ok"
          /\ \E f \in DeviceFiles : f.path = rmLog[k].path
    /\ photos_data = <<>>

\* ---------------------------------------------------------------- C21

\* No worker runs and the main loop has run every posted callback.
Settled == worker = "none" /\ afterQ = <<>>

\* C21: in every state where no scan or delete worker is running (and, read
\* in the claim's favour, every callback the worker posted has run), the
\* Delete button is enabled only if the candidate list is non-empty.
C21_DeleteEnabledOnlyWithCandidates ==
    (Settled /\ delete_btn = "normal") => photos_data # <<>>

\* ---------------------------------------------------------------- C22

\* C22: once a delete run (simulated or real) has started, the Delete button
\* is disabled during the run and after it, and it goes back to normal only
\* by the callback of a scan that was started after that run and completed
\* with at least one candidate; so no delete run starts (a dry run is not
\* followed by a real delete of the same list) unless a scan was started
\* since the previous delete run.
C22_DeleteDisabledUntilNextScan ==
    /\ [](DeleteLive => delete_btn = "disabled")
    /\ [][ (delete_btn = "disabled" /\ delete_btn' = "normal") =>
              /\ ~DeleteLive
              /\ worker = "none"
              /\ scan_outcome = "ok"
              /\ photos_data # <<>> ]_vars
    /\ [][ (worker = "none" /\ worker' = "delete") => ~DeleteLive ]_vars

\* A dry run has ended and its callbacks have run: the candidate list is as
\* the scan left it, Scan is enabled again and Delete is disabled.
C22_Witness ==
    /\ DeleteDone
    /\ del.dry_run
    /\ afterQ = <<>>
    /\ photos_data # <<>>
    /\ scan_btn = "normal"
    /\ delete_btn = "disabled"

\* ---------------------------------------------------------------- C23

\* The callback that re-enables the Scan button.
ScanBtnNormal == [op |-> "scan_btn", state |-> "normal"]

\* No operation is in progress and the Scan button can be clicked.
ScanEnabledAgain == worker = "none" /\ ~dialog /\ scan_btn = "normal"

\* C23: provided every device call returns, every started scan and every
\* started delete run ends; the step that ends it (success, per-item
\* failures or the fatal failure of the root listing alike) closes the
\* progress dialog and posts the callback that re-enables the Scan button,
\* and from any state in which a worker runs a state is reached in which no
\* worker runs and the Scan button is enabled.
C23_OperationsEndAndScanReenabled ==
    /\ [][ (worker # "none" /\ worker' = "none") =>
              /\ ~dialog'
              /\ \E k \in 1..Len(afterQ') : afterQ'[k] = ScanBtnNormal ]_vars
    /\ (worker = "scan") ~> (worker = "none")
    /\ (worker = "delete") ~> (worker = "none")
    /\ (worker # "none") ~> ScanEnabledAgain

\* A real delete run in which an rm failed has ended, its callbacks have run
\* and the Scan button is enabled again.
C23_Witness ==
    /\ DeleteDone
    /\ ~del.dry_run
    /\ del.errors > 0
    /\ afterQ = <<>>
    /\ ScanEnabledAgain

====
